---- MODULE Spec2Model ----
(***************************************************************************)
(* Decision core of the kelp market-making bot:                            *)
(*   - the volume admission filter (plugins, volumeFilterFn),              *)
(*   - the submit-mode filter (trader/submitMode.go),                      *)
(*   - the swing level provider (plugins, swingLevelProvider).             *)
(* Each component has its own specification over the shared variable list; *)
(* the variables of the other components stay at their initial values.     *)
(***************************************************************************)
EXTENDS Integers, Sequences, FiniteSets, TLC

VARIABLES
    lp,          \* limitParameters of the volume filter: the two optional caps
    dailyOTB,    \* on-the-books volume snapshot of the cycle
    dailyTBB,    \* to-be-booked accumulator of the cycle
    vfCall,      \* the last volumeFilterFn call: its inputs, the TBB before it, its result
    submitMode,  \* the configured SubmitMode
    filter,      \* what makeSubmitFilter returned
    orderBook,   \* the top of the SDEX orderbook (best bid, best ask)
    applyCall,   \* the last submit-filter call: its batch and its result
    IsCcxtTradeHistoryHack, \* whether the trade cursor is an inclusive timestamp
    price2LastPrice, \* the global map from a quantized price to its swing price
    config,      \* per side, the parameters the provider was made with
    provider,    \* per side, lastTradePrice, lastTradeCursor, isFirstTradeHistoryRun
    tradeHistory, \* the trades of the pair on the exchange, oldest first
    glCall,      \* the last GetLevels call: its inputs, what it fetched and returned
    emitted,     \* every <<quantized market price, swing price>> a level was emitted with
    lastEmitted, \* per quantized market price, the swing price of its latest level
    run,         \* per side, where a GetLevels call in progress stands, and its locals
    poll,        \* the fetchLatestTradePrice call in progress: its locals, its page count
    scan,        \* the getLastPriceFromMap call in progress: its arguments and locals
    cursorCall,  \* the cursor advancement after a page: its last trade and its result
    volumeFilter \* what makeFilterVolume built: its mode and its market IDs

volumeVars == <<lp, dailyOTB, dailyTBB, vfCall>>
submitVars == <<submitMode, filter, orderBook, applyCall>>
swingVars == <<IsCcxtTradeHistoryHack, price2LastPrice, config, provider, tradeHistory, glCall,
               emitted, lastEmitted>>
stepVars == <<run, poll, scan, cursorCall>>
makeFilterVars == <<volumeFilter>>
vars == <<lp, dailyOTB, dailyTBB, vfCall, submitMode, filter, orderBook, applyCall,
          IsCcxtTradeHistoryHack, price2LastPrice, config, provider, tradeHistory, glCall,
          emitted, lastEmitted, run, poll, scan, cursorCall, volumeFilter>>

Min(a, b) == IF a <= b THEN a ELSE b

(***************************************************************************)
(* VOLUME ADMISSION FILTER                                                 *)
(*                                                                         *)
(* Base amounts are counted in ticks (the exchange's minimum amount step,  *)
(* the 7th decimal of the "%.7f" amounts of the tests).  A price is a      *)
(* whole number of price steps, so amount * price is the exact quote       *)
(* equivalent of an amount, in units of tick * price step; quote volumes   *)
(* and the quote cap are counted in that unit.                             *)
(***************************************************************************)
MaxPriceNum == 3
MaxAmount == 4
MaxCap == 3
MaxOTB == 2
MaxTBB == 4

\* makeTestVolumeFilterConfig: a negative cap argument stands for "not set"
NoCap == -1

Caps == {NoCap} \cup (0 .. MaxCap)
Volumes == [base : 0 .. MaxOTB, quote : 0 .. MaxOTB]
ZeroVolume == [base |-> 0, quote |-> 0]

\* the result "none" of the filter: the operation is dropped
NoOp == [none |-> TRUE, price |-> 0, amount |-> 0]
ManageSellOffer(price, amount) == [none |-> FALSE, price |-> price, amount |-> amount]

\* a filter that forgets what the cycle has already admitted
AvailableBaseWithoutTBB(l, otb, tbb) == l.sellBaseAssetCapInBaseUnits - otb.base

\* step 1: what is left under each cap
AvailableBase(l, otb, tbb) == l.sellBaseAssetCapInBaseUnits - (otb.base + tbb.base)
AvailableQuote(l, otb, tbb) == l.sellBaseAssetCapInQuoteUnits - (otb.quote + tbb.quote)

\* a filter that compares the quote availability with the base amount unconverted
AdmissibleUnconverted(l, otb, tbb, op) ==
    LET own == op.amount * op.price
        b == IF l.sellBaseAssetCapInBaseUnits = NoCap THEN own
             ELSE Min(own, AvailableBase(l, otb, tbb) * op.price)
    IN IF l.sellBaseAssetCapInQuoteUnits = NoCap THEN b
       ELSE Min(b, AvailableQuote(l, otb, tbb) * op.price)

\* step 2: the admissible amount, kept multiplied by the price (> 0) so that the
\* quote availability divided by the price stays exact: the minimum of the
\* operation's own amount and of each configured availability
AdmissibleTimesPrice(l, otb, tbb, op) ==
    LET own == op.amount * op.price
        b == IF l.sellBaseAssetCapInBaseUnits = NoCap THEN own
             ELSE Min(own, AvailableBase(l, otb, tbb) * op.price)
    IN IF l.sellBaseAssetCapInQuoteUnits = NoCap THEN b
       ELSE Min(b, AvailableQuote(l, otb, tbb))

\* a filter that drops only below zero
KeepSellingAtZero(l, otb, tbb, op) == AdmissibleTimesPrice(l, otb, tbb, op) >= 0

\* step 3: an admissible amount <= 0 drops the operation
KeepSelling(l, otb, tbb, op) == AdmissibleTimesPrice(l, otb, tbb, op) > 0

\* step 4: the amount of the returned operation, at tick precision, rounded down
AdmittedAmount(l, otb, tbb, op) == AdmissibleTimesPrice(l, otb, tbb, op) \div op.price

\* an accumulator that books the requested quote volume without the price
AccumulateTBBUnpriced(tbb, price, admitted) ==
    [base |-> tbb.base + admitted, quote |-> tbb.quote + admitted]

\* step 5: the accumulator after an admission
AccumulateTBB(tbb, price, admitted) ==
    [base |-> tbb.base + admitted, quote |-> tbb.quote + admitted * price]

\* a filter that never drops: it books whatever amount is left, negative too
VolumeFilterFnNoDrop(otb, tbb, op, l) ==
    LET admitted == AdmittedAmount(l, otb, tbb, op)
    IN [op |-> ManageSellOffer(op.price, admitted),
        tbb |-> AccumulateTBB(tbb, op.price, admitted)]

\* volumeFilterFn(dailyOTB, dailyTBB, op, baseAsset, quoteAsset, lp): the
\* returned operation (or none) and the accumulator it leaves
VolumeFilterFn(otb, tbb, op, l) ==
    IF KeepSelling(l, otb, tbb, op)
    THEN LET admitted == AdmittedAmount(l, otb, tbb, op)
         IN [op |-> ManageSellOffer(op.price, admitted),
             tbb |-> AccumulateTBB(tbb, op.price, admitted)]
    ELSE [op |-> NoOp, tbb |-> tbb]

NoVfCall == [called |-> FALSE, op |-> NoOp, otb |-> ZeroVolume, tbbBefore |-> ZeroVolume,
             out |-> NoOp]

\* the volume filter before any cycle ran, with no limit configured
NoLimits == [sellBaseAssetCapInBaseUnits |-> NoCap, sellBaseAssetCapInQuoteUnits |-> NoCap]

\* one operation of the cycle goes through the filter
ApplyVolumeFilter(price, amount) ==
    LET op == ManageSellOffer(price, amount)
        r == VolumeFilterFn(dailyOTB, dailyTBB, op, lp)
    IN /\ dailyTBB.base < MaxTBB
       /\ dailyTBB' = r.tbb
       /\ vfCall' = [called |-> TRUE, op |-> op, otb |-> dailyOTB, tbbBefore |-> dailyTBB,
                     out |-> r.op]
       /\ UNCHANGED <<lp, dailyOTB>>

\* the next trading cycle: OTB is fetched again, TBB starts from zero
NewCycle(otb) ==
    /\ dailyOTB' = otb
    /\ dailyTBB' = ZeroVolume
    /\ vfCall' = NoVfCall
    /\ UNCHANGED lp

(***************************************************************************)
(* SUBMIT-MODE FILTER (trader/submitMode.go)                               *)
(***************************************************************************)
MaxOps == 2
MaxBookPrice == 1

SubmitModeMakerOnly == 0
SubmitModeTakerOnly == 1
SubmitModeBoth == 2
SubmitModes == {SubmitModeMakerOnly, SubmitModeTakerOnly, SubmitModeBoth}

\* a nil submitFilter
NilFilter == [isNil |-> TRUE, submitMode |-> SubmitModeBoth]

\* a factory that makes a filter for every mode
MakeSubmitFilterAlways(mode) == [isNil |-> FALSE, submitMode |-> mode]

\* makeSubmitFilter(submitMode, sdex, tradingPair)
MakeSubmitFilter(mode) ==
    IF mode = SubmitModeMakerOnly \/ mode = SubmitModeTakerOnly
    THEN [isNil |-> FALSE, submitMode |-> mode]
    ELSE NilFilter

\* ob := &model.OrderBook{}: the orderbook apply hands to the mode filters; the
\* GetOrderBook call is commented out, so it holds no bid and no ask
EmptyOrderBook == [bid |-> 0, ask |-> 0]

\* filterMakerMode(ops, ob): return nil, nil
FilterMakerMode(ops, ob) == [ops |-> <<>>, err |-> FALSE]

\* filterTakerMode(ops, ob): return nil, nil
FilterTakerMode(ops, ob) == [ops |-> <<>>, err |-> FALSE]

\* sdexFilter.apply(ops)
Apply(f, ops) ==
    LET ob == EmptyOrderBook
        r == IF f.submitMode = SubmitModeMakerOnly
             THEN FilterMakerMode(ops, ob)
             ELSE FilterTakerMode(ops, ob)
    IN IF r.err THEN [ops |-> <<>>, err |-> TRUE, ob |-> ob]
       ELSE [ops |-> r.ops, err |-> FALSE, ob |-> ob]

\* the operations of a batch: a sell or a buy offer at a price
Operations == [isSell : BOOLEAN, price : 1 .. MaxBookPrice]
Batches == UNION {[1 .. n -> Operations] : n \in 0 .. MaxOps}
OrderBooks == {ob \in [bid : 0 .. MaxBookPrice, ask : 1 .. MaxBookPrice + 1] : ob.bid < ob.ask}

\* the last batch the trader has sent on its way: whether apply was called on
\* it, the top of the book then and whether a fetch of it would have failed,
\* the orderbook apply handed to the mode filters, and what came out
NoApplyCall == [called |-> FALSE, ops |-> <<>>, ob |-> EmptyOrderBook, out |-> <<>>,
                err |-> FALSE, obFails |-> FALSE, obHanded |-> EmptyOrderBook]

\* the trader hands a batch to the filter it constructed
\* (obFails: sdex.GetOrderBook would return an error at this moment)
SubmitFilterApply(ops, obFails) ==
    /\ ~filter.isNil
    /\ LET r == Apply(filter, ops)
       IN applyCall' = [called |-> TRUE, ops |-> ops, ob |-> orderBook, out |-> r.ops,
                        err |-> r.err, obFails |-> obFails, obHanded |-> r.ob]
    /\ UNCHANGED <<submitMode, filter, orderBook>>

\* the trader has no filter (nil): the batch goes to submission as it is
SubmitUnfiltered(ops) ==
    /\ filter.isNil
    /\ applyCall' = [called |-> FALSE, ops |-> ops, ob |-> orderBook, out |-> ops,
                     err |-> FALSE, obFails |-> FALSE, obHanded |-> EmptyOrderBook]
    /\ UNCHANGED <<submitMode, filter, orderBook>>

\* the market moves: another best bid and best ask
OrderBookUpdate(ob) ==
    /\ ob # orderBook
    /\ orderBook' = ob
    /\ UNCHANGED <<submitMode, filter, applyCall>>

(***************************************************************************)
(* SWING LEVEL PROVIDER (plugins, swingLevelProvider)                      *)
(*                                                                         *)
(* A float64 is modelled as an exact fraction <<numerator, denominator>>   *)
(* in lowest terms with a positive denominator, so that equal values are   *)
(* equal tuples (the map keys of price2LastPrice are compared with ==).     *)
(***************************************************************************)
RECURSIVE GCD(_, _)
GCD(a, b) == IF b = 0 THEN a ELSE GCD(b, a % b)
Abs(n) == IF n < 0 THEN -n ELSE n
Frac(n, d) ==
    LET g == GCD(Abs(n), Abs(d))
    IN IF d < 0 THEN <<(-n) \div g, (-d) \div g>> ELSE <<n \div g, d \div g>>
Whole(n) == <<n, 1>>
Mul(x, y) == Frac(x[1] * y[1], x[2] * y[2])
Div(x, y) == Frac(x[1] * y[2], x[2] * y[1])
Add(x, y) == Frac(x[1] * y[2] + y[1] * x[2], x[2] * y[2])
Sub(x, y) == Frac(x[1] * y[2] - y[1] * x[2], x[2] * y[2])
Less(x, y) == x[1] * y[2] < y[1] * x[2]
LessEq(x, y) == x[1] * y[2] <= y[1] * x[2]

\* 10^utils.SdexPrecision: the price steps in one unit of price
PriceScale == 4

\* round(num): int(num + math.Copysign(0.5, num)), for the fraction n / d
Round(n, d) == IF n >= 0 THEN (2 * n + d) \div (2 * d) ELSE -((2 * (-n) + d) \div (2 * d))

\* model.NumberFromFloat(f, utils.SdexPrecision).AsFloat(): f rounded to the
\* price precision
NumberFromFloat(f) == Frac(Round(f[1] * PriceScale, f[2]), PriceScale)

MaxTrades == 1
PageSize == 1
MaxLevels == 2

Sides == {"sell", "buy"}

\* the parameters makeSwingLevelProvider is given for each side; the buy side
\* works on the inverted price (useMaxQuoteInTargetAmountCalc)
SwingConfig ==
    [sell |-> [spread |-> Whole(1), offsetSpread |-> Whole(1), amountBase |-> Whole(1),
               useMaxQuoteInTargetAmountCalc |-> FALSE, maxLevels |-> MaxLevels,
               priceLimit |-> Whole(3), minBase |-> Whole(1)],
     buy |-> [spread |-> Whole(1), offsetSpread |-> Whole(0), amountBase |-> Whole(1),
              useMaxQuoteInTargetAmountCalc |-> TRUE, maxLevels |-> MaxLevels,
              priceLimit |-> Frac(1, 8), minBase |-> Whole(1)]]
InitialLastTradePrice == Frac(1, 2)
InitialLastTradeCursor == 0

\* makeSwingLevelProvider(...): the mutable fields of a new provider
MakeSwingLevelProvider(lastTradePrice, lastTradeCursor) ==
    [lastTradePrice |-> lastTradePrice, lastTradeCursor |-> lastTradeCursor,
     isFirstTradeHistoryRun |-> TRUE]

\* the balances GetLevels is called with
MaxAssetBases == {Whole(1), Whole(4)}

\* prices of trades that are not fills of a level on the map
OtherTradePrices == {Whole(1)}

MinusOne == Whole(-1)
Zero == Whole(0)
One == Whole(1)
Half == Frac(1, 2)

(* ---- the trade history source (api.TradeFetcher) ---- *)

\* the n-th trade of the pair: its transaction ID and its timestamp are n
Trade(n, price, isBuy) == [transactionID |-> n, timestamp |-> n, price |-> price, isBuy |-> isBuy]

\* the trades GetTradeHistory(pair, cursor, nil) has to return: those after the
\* transaction with ID cursor, or, for the adapters whose cursor is an inclusive
\* timestamp, those at or after it
IsAfterCursor(t, cursor, hack) == IF hack THEN t.timestamp >= cursor ELSE t.transactionID > cursor

\* tradeFetcher.GetTradeHistory(pair, cursor, nil): one page, oldest first
GetTradeHistory(history, cursor, hack) ==
    LET after == SelectSeq(history, LAMBDA t : IsAfterCursor(t, cursor, hack))
    IN IF Len(after) <= PageSize THEN after ELSE SubSeq(after, 1, PageSize)

\* a cursor that is left on the timestamp of the last trade
NextCursorNotIncremented(lastTrade, hack) ==
    IF hack THEN lastTrade.timestamp ELSE lastTrade.transactionID

\* the cursor after a page, from its last trade
NextCursor(lastTrade, hack) == IF hack THEN lastTrade.timestamp + 1 ELSE lastTrade.transactionID

FetchError(fetches) ==
    [err |-> TRUE, price |-> Zero, cursor |-> 0, isBuy |-> FALSE, fetches |-> fetches]

\* fetchLatestTradePrice(): page after page until an empty page; failAt is the
\* GetTradeHistory call that fails (0: none does)
RECURSIVE FetchLoop(_, _, _, _, _, _, _)
FetchLoop(history, hack, lastPrice, lastCursor, lastIsBuy, fetched, failAt) ==
    IF fetched + 1 = failAt THEN FetchError(fetched + 1)
    ELSE LET trades == GetTradeHistory(history, lastCursor, hack)
         IN IF Len(trades) = 0
            THEN [err |-> FALSE, price |-> lastPrice, cursor |-> lastCursor,
                  isBuy |-> lastIsBuy, fetches |-> fetched + 1]
            ELSE LET lastTrade == trades[Len(trades)]
                 IN FetchLoop(history, hack, lastTrade.price, NextCursor(lastTrade, hack),
                              lastTrade.isBuy, fetched + 1, failAt)

FetchLatestTradePrice(p, history, hack, failAt) ==
    FetchLoop(history, hack, p.lastTradePrice, p.lastTradeCursor, FALSE, 0, failAt)

(* ---- price2LastPrice ---- *)

\* the locals of getLastPriceFromMap before the first iteration
ScanStart == [closestOfferPrice |-> MinusOne, lastPrice |-> MinusOne]

\* one iteration of the loop of getLastPriceFromMap, on the entry at offerPrice
ScanStep(m, tradePrice, lastTradeIsBuy, st, offerPrice) ==
    LET firstIter == st.closestOfferPrice = MinusOne
        buyTrigger == /\ lastTradeIsBuy
                      /\ Less(tradePrice, offerPrice)
                      /\ Less(offerPrice, st.closestOfferPrice)
        sellTrigger == /\ ~lastTradeIsBuy
                       /\ Less(offerPrice, tradePrice)
                       /\ Less(st.closestOfferPrice, offerPrice)
    IN IF firstIter \/ buyTrigger \/ sellTrigger
       THEN [closestOfferPrice |-> offerPrice, lastPrice |-> m[offerPrice]]
       ELSE st

\* the range over the map visits its entries in an order that is not fixed:
\* <<visited, st>> for every set of j entries and every order they can have
\* been visited in
RECURSIVE ScanAfter(_, _, _, _)
ScanAfter(m, tradePrice, lastTradeIsBuy, j) ==
    IF j = 0 THEN {<<{}, ScanStart>>}
    ELSE UNION {{<<x[1] \cup {k}, ScanStep(m, tradePrice, lastTradeIsBuy, x[2], k)>> :
                    k \in DOMAIN m \ x[1]} :
                x \in ScanAfter(m, tradePrice, lastTradeIsBuy, j - 1)}

\* getLastPriceFromMap(mapKey, lastTradeIsBuy): the prices it can return
GetLastPriceFromMap(m, mapKey, lastTradeIsBuy) ==
    IF mapKey \in DOMAIN m THEN {m[mapKey]}
    ELSE {x[2].lastPrice : x \in ScanAfter(m, mapKey, lastTradeIsBuy, Cardinality(DOMAIN m))}

\* price2LastPrice[key] = value
Upsert(m, key, value) == [k \in DOMAIN m \cup {key} |-> IF k = key THEN value ELSE m[k]]

EmptyMap == [k \in {} |-> Zero]

(* ---- GetLevels ---- *)

\* an entry check that lets a balance of exactly minBase through
NothingToExposeStrict(c, maxAssetBase) == Less(maxAssetBase, c.minBase)

\* the entry check of GetLevels
NothingToExpose(c, maxAssetBase) == LessEq(maxAssetBase, c.minBase)

\* an update that takes the price of the last polled trade on the first run
ReconcileFirstRunPrice(p, r, fromMap) ==
    IF p.isFirstTradeHistoryRun
    THEN [p EXCEPT !.isFirstTradeHistoryRun = FALSE, !.lastTradeCursor = r.cursor,
                   !.lastTradePrice = r.price]
    ELSE IF r.cursor = p.lastTradeCursor THEN p
    ELSE [p EXCEPT !.lastTradeCursor = r.cursor,
                   !.lastTradePrice = fromMap]

\* an update that does not compare the cursors and requantizes the price when
\* no trade is new
ReconcileWithoutCursorTest(p, r, fromMap) ==
    IF p.isFirstTradeHistoryRun
    THEN [p EXCEPT !.isFirstTradeHistoryRun = FALSE, !.lastTradeCursor = r.cursor]
    ELSE [p EXCEPT !.lastTradeCursor = r.cursor,
                   !.lastTradePrice = IF r.cursor = p.lastTradeCursor
                                      THEN NumberFromFloat(r.price) ELSE fromMap]

\* the update of the swing state after a successful fetch r; fromMap is what
\* getLastPriceFromMap returns, when it is called
Reconcile(p, r, fromMap) ==
    IF p.isFirstTradeHistoryRun
    THEN [p EXCEPT !.isFirstTradeHistoryRun = FALSE, !.lastTradeCursor = r.cursor]
    ELSE IF r.cursor = p.lastTradeCursor THEN p
    ELSE [p EXCEPT !.lastTradeCursor = r.cursor,
                   !.lastTradePrice = fromMap]

\* 1 + x/2
OnePlusHalf(x) == Add(One, Mul(x, Half))

\* a map value that is left in the inverted price on the buy side
MapValueUninverted(c, newPrice) == newPrice

\* a map key that is left in the inverted price on the buy side
MapKeyUninverted(c, priceToUse) == NumberFromFloat(priceToUse)

\* the map entry of a level: its key and its value
MapKey(c, priceToUse) ==
    IF c.useMaxQuoteInTargetAmountCalc THEN NumberFromFloat(Div(One, priceToUse))
    ELSE NumberFromFloat(priceToUse)
MapValue(c, newPrice) == IF c.useMaxQuoteInTargetAmountCalc THEN Div(One, newPrice) ELSE newPrice

\* a level whose price is not brought to the price precision
LevelUnquantized(c, priceToUse) ==
    [price |-> priceToUse, amount |-> NumberFromFloat(c.amountBase)]

\* api.Level{Price, Amount}
Level(c, priceToUse) ==
    [price |-> NumberFromFloat(priceToUse), amount |-> NumberFromFloat(c.amountBase)]

\* a pass that stops only when the level would leave less than minBase
LevelStepLenient(c, maxAssetBase, lastNewPrice, baseExposed) ==
    LET newPrice == Mul(lastNewPrice, OnePlusHalf(c.spread))
        priceToUse == Mul(newPrice, OnePlusHalf(c.offsetSpread))
        expectedBaseUsage == IF c.useMaxQuoteInTargetAmountCalc
                             THEN Div(c.amountBase, priceToUse)
                             ELSE c.amountBase
        expectedEndingBase == Sub(Sub(maxAssetBase, baseExposed), expectedBaseUsage)
    IN [newPrice |-> newPrice, priceToUse |-> priceToUse,
        expectedBaseUsage |-> expectedBaseUsage,
        stop |-> \/ Less(expectedEndingBase, c.minBase)
                 \/ /\ c.useMaxQuoteInTargetAmountCalc
                    /\ Less(Div(One, priceToUse), c.priceLimit)
                 \/ /\ ~c.useMaxQuoteInTargetAmountCalc
                    /\ Less(c.priceLimit, priceToUse)]

\* one pass of the level creation loop up to its stop conditions: the prices
\* it computes, and whether it breaks out
LevelStep(c, maxAssetBase, lastNewPrice, baseExposed) ==
    LET newPrice == Mul(lastNewPrice, OnePlusHalf(c.spread))
        priceToUse == Mul(newPrice, OnePlusHalf(c.offsetSpread))
        expectedBaseUsage == IF c.useMaxQuoteInTargetAmountCalc
                             THEN Div(c.amountBase, priceToUse)
                             ELSE c.amountBase
        expectedEndingBase == Sub(Sub(maxAssetBase, baseExposed), expectedBaseUsage)
    IN [newPrice |-> newPrice, priceToUse |-> priceToUse,
        expectedBaseUsage |-> expectedBaseUsage,
        stop |-> \/ LessEq(expectedEndingBase, c.minBase)
                 \/ /\ c.useMaxQuoteInTargetAmountCalc
                    /\ Less(Div(One, priceToUse), c.priceLimit)
                 \/ /\ ~c.useMaxQuoteInTargetAmountCalc
                    /\ Less(c.priceLimit, priceToUse)]

\* the level creation loop from iteration i on
RECURSIVE LevelLoop(_, _, _, _, _, _, _)
LevelLoop(c, maxAssetBase, i, lastNewPrice, baseExposed, levels, m) ==
    IF ~(i < c.maxLevels) THEN [levels |-> levels, map |-> m]
    ELSE LET s == LevelStep(c, maxAssetBase, lastNewPrice, baseExposed)
         IN IF s.stop THEN [levels |-> levels, map |-> m]
            ELSE LevelLoop(c, maxAssetBase, i + 1, s.newPrice,
                           Add(baseExposed, s.expectedBaseUsage),
                           Append(levels, Level(c, s.priceToUse)),
                           Upsert(m, MapKey(c, s.priceToUse), MapValue(c, s.newPrice)))

\* the price the loop starts from
StartPrice(c, p) ==
    IF c.useMaxQuoteInTargetAmountCalc THEN Div(One, p.lastTradePrice) ELSE p.lastTradePrice

\* a GetLevels that clears the first-run flag before it looks at the error
GetLevelsOfFlagFirst(c, p, m, history, hack, maxAssetBase, failAt, fromMap) ==
    IF NothingToExpose(c, maxAssetBase)
    THEN [levels |-> <<>>, err |-> FALSE, provider |-> p, map |-> m, fetches |-> 0,
          fetched |-> FetchError(0)]
    ELSE LET r == FetchLatestTradePrice(p, history, hack, failAt)
         IN IF r.err
            THEN [levels |-> <<>>, err |-> TRUE,
                  provider |-> [p EXCEPT !.isFirstTradeHistoryRun = FALSE], map |-> m,
                  fetches |-> r.fetches, fetched |-> r]
            ELSE LET q == Reconcile(p, r, fromMap)
                     l == LevelLoop(c, maxAssetBase, 0, StartPrice(c, q), Zero, <<>>, m)
                 IN [levels |-> l.levels, err |-> FALSE, provider |-> q, map |-> l.map,
                     fetches |-> r.fetches, fetched |-> r]

\* GetLevels(maxAssetBase, maxAssetQuote) of the provider (c, p) on the map m:
\* what it returns, the provider and the map it leaves, and the calls of
\* GetTradeHistory it made
GetLevelsOf(c, p, m, history, hack, maxAssetBase, failAt, fromMap) ==
    IF NothingToExpose(c, maxAssetBase)
    THEN [levels |-> <<>>, err |-> FALSE, provider |-> p, map |-> m, fetches |-> 0,
          fetched |-> FetchError(0)]
    ELSE LET r == FetchLatestTradePrice(p, history, hack, failAt)
         IN IF r.err
            THEN [levels |-> <<>>, err |-> TRUE, provider |-> p, map |-> m,
                  fetches |-> r.fetches, fetched |-> r]
            ELSE LET q == Reconcile(p, r, fromMap)
                     l == LevelLoop(c, maxAssetBase, 0, StartPrice(c, q), Zero, <<>>, m)
                 IN [levels |-> l.levels, err |-> FALSE, provider |-> q, map |-> l.map,
                     fetches |-> r.fetches, fetched |-> r]

(* ---- what the providers have emitted so far (history of the run) ---- *)

RECURSIVE Power(_, _)
Power(x, n) == IF n = 0 THEN One ELSE Mul(x, Power(x, n - 1))

\* the swing price behind the i-th level of a ladder anchored at lastTradePrice:
\* lastTradePrice compounded i times, upwards for the sell side and downwards,
\* in actual quote price, for the buy side
CompoundedSwingPrice(c, lastTradePrice, i) ==
    IF c.useMaxQuoteInTargetAmountCalc
    THEN Div(lastTradePrice, Power(OnePlusHalf(c.spread), i))
    ELSE Mul(lastTradePrice, Power(OnePlusHalf(c.spread), i))

\* the market price of that level, in actual quote price, at price precision
QuantizedMarketPrice(c, lastTradePrice, i) ==
    IF c.useMaxQuoteInTargetAmountCalc
    THEN NumberFromFloat(Div(CompoundedSwingPrice(c, lastTradePrice, i),
                             OnePlusHalf(c.offsetSpread)))
    ELSE NumberFromFloat(Mul(CompoundedSwingPrice(c, lastTradePrice, i),
                             OnePlusHalf(c.offsetSpread)))

\* <<P, S>> for the first n levels of a ladder
Emissions(c, lastTradePrice, n) ==
    {<<QuantizedMarketPrice(c, lastTradePrice, i), CompoundedSwingPrice(c, lastTradePrice, i)>> :
        i \in 1 .. n}

RECURSIVE LatestEmissions(_, _, _, _, _)
LatestEmissions(latest, c, lastTradePrice, i, n) ==
    IF i > n THEN latest
    ELSE LatestEmissions(Upsert(latest, QuantizedMarketPrice(c, lastTradePrice, i),
                                CompoundedSwingPrice(c, lastTradePrice, i)),
                         c, lastTradePrice, i + 1, n)

NoGlCall ==
    [called |-> FALSE, side |-> "sell", maxAssetBase |-> Zero, levels |-> <<>>, err |-> FALSE,
     fetches |-> 0, fetchFailed |-> FALSE, firstRun |-> FALSE, newTrade |-> FALSE,
     lastPrice |-> Zero]

\* what the call of getLastPriceFromMap at line 391 can return, when GetLevels
\* gets there
PricesFromMap(c, p, m, history, hack, maxAssetBase, failAt) ==
    LET r == FetchLatestTradePrice(p, history, hack, failAt)
    IN IF /\ ~NothingToExpose(c, maxAssetBase)
          /\ ~r.err
          /\ ~p.isFirstTradeHistoryRun
          /\ r.cursor # p.lastTradeCursor
       THEN GetLastPriceFromMap(m, NumberFromFloat(r.price), r.isBuy)
       ELSE {p.lastTradePrice}

\* one side's provider runs GetLevels(maxAssetBase, maxAssetQuote)
GetLevels(side, maxAssetBase, failAt) ==
    LET c == config[side]
        p == provider[side]
    IN \E fromMap \in PricesFromMap(c, p, price2LastPrice, tradeHistory, IsCcxtTradeHistoryHack,
                                   maxAssetBase, failAt) :
        \E g \in {GetLevelsOf(c, p, price2LastPrice, tradeHistory, IsCcxtTradeHistoryHack,
                                maxAssetBase, failAt, fromMap)} :
           /\ provider' = [provider EXCEPT ![side] = g.provider]
           /\ price2LastPrice' = g.map
           /\ glCall' = [called |-> TRUE, side |-> side, maxAssetBase |-> maxAssetBase,
                         levels |-> g.levels, err |-> g.err, fetches |-> g.fetches,
                         fetchFailed |-> g.fetches > 0 /\ g.fetched.err,
                         firstRun |-> p.isFirstTradeHistoryRun,
                         newTrade |-> ~g.fetched.err /\ g.fetched.cursor # p.lastTradeCursor,
                         lastPrice |-> g.fetched.price]
           /\ emitted' = emitted \cup Emissions(c, g.provider.lastTradePrice, Len(g.levels))
           /\ lastEmitted' = LatestEmissions(lastEmitted, c, g.provider.lastTradePrice, 1,
                                             Len(g.levels))
           /\ UNCHANGED <<IsCcxtTradeHistoryHack, config, tradeHistory>>

\* the exchange executes a trade of the pair: a fill of a level on the map, or
\* a trade at another price
NewTrade(price, isBuy) ==
    /\ Len(tradeHistory) < MaxTrades
    /\ tradeHistory' = Append(tradeHistory, Trade(Len(tradeHistory) + 1, price, isBuy))
    /\ UNCHANGED <<IsCcxtTradeHistoryHack, config, provider, price2LastPrice, glCall, emitted,
                   lastEmitted>>

(***************************************************************************)
(* CALLS IN PROGRESS                                                       *)
(***************************************************************************)
\* no GetLevels call in progress on a side
NoRun == [at |-> "idle", maxAssetBase |-> Zero, tradePrice |-> MinusOne,
          lastTradeIsBuy |-> FALSE, i |-> 0, newPrice |-> Zero, baseExposed |-> Zero,
          usage |-> Zero, levels |-> <<>>, key |-> MinusOne, value |-> MinusOne]
NoRuns == [s \in Sides |-> NoRun]

\* the provider of the other side
Other(side) == CHOOSE s \in Sides : s # side

\* a side is inside getLastPriceFromMap, or inside the assignment to an entry
\* of price2LastPrice
Reading(side) == run[side].at = "reading"
Writing(side) == run[side].at = "writing"

\* nothing orders the accesses of the two providers to price2LastPrice: one
\* writes it while the other reads or writes it
ConcurrentMapAccess ==
    \E s \in Sides : Writing(s) /\ (Reading(Other(s)) \/ Writing(Other(s)))

\* GetLevels from its entry to its first access to the map. A call that returns
\* at once, having nothing to expose or failing to fetch, changes nothing.
GetLevelsEnter(side, maxAssetBase, failAt) ==
    LET c == config[side]
        p == provider[side]
        r == FetchLatestTradePrice(p, tradeHistory, IsCcxtTradeHistoryHack, failAt)
    IN /\ run[side].at = "idle"
       /\ ~NothingToExpose(c, maxAssetBase)
       /\ ~r.err
       /\ IF p.isFirstTradeHistoryRun \/ r.cursor = p.lastTradeCursor
          THEN LET q == Reconcile(p, r, p.lastTradePrice)
               IN /\ provider' = [provider EXCEPT ![side] = q]
                  /\ run' = [run EXCEPT ![side] =
                                [NoRun EXCEPT !.at = "loop", !.maxAssetBase = maxAssetBase,
                                              !.newPrice = StartPrice(c, q)]]
          ELSE /\ provider' = [provider EXCEPT ![side].lastTradeCursor = r.cursor]
               /\ run' = [run EXCEPT ![side] =
                             [NoRun EXCEPT !.at = "reading", !.maxAssetBase = maxAssetBase,
                                           !.tradePrice = NumberFromFloat(r.price),
                                           !.lastTradeIsBuy = r.isBuy]]
       /\ UNCHANGED <<IsCcxtTradeHistoryHack, price2LastPrice, config, tradeHistory, glCall,
                      emitted, lastEmitted>>

\* what getLastPriceFromMap can return to a side: a scan of the map as it is,
\* or, while the other side is writing an entry, of the map with that entry
MapReads(side) ==
    LET st == run[side]
        w == run[Other(side)]
    IN GetLastPriceFromMap(price2LastPrice, st.tradePrice, st.lastTradeIsBuy)
       \cup IF Writing(Other(side))
            THEN GetLastPriceFromMap(Upsert(price2LastPrice, w.key, w.value), st.tradePrice,
                                     st.lastTradeIsBuy)
            ELSE {}

\* getLastPriceFromMap returns and GetLevels stores the price
GetLevelsRead(side) ==
    /\ Reading(side)
    /\ \E fromMap \in MapReads(side) :
           LET q == [provider[side] EXCEPT !.lastTradePrice = fromMap]
           IN /\ provider' = [provider EXCEPT ![side] = q]
              /\ run' = [run EXCEPT ![side].at = "loop",
                                    ![side].newPrice = StartPrice(config[side], q)]
    /\ UNCHANGED <<IsCcxtTradeHistoryHack, price2LastPrice, config, tradeHistory, glCall,
                   emitted, lastEmitted>>

\* one pass of the level creation loop up to the assignment to the map entry,
\* or the return of the levels
GetLevelsLoop(side) ==
    LET c == config[side]
        st == run[side]
        s == LevelStep(c, st.maxAssetBase, st.newPrice, st.baseExposed)
    IN /\ st.at = "loop"
       /\ IF ~(st.i < c.maxLevels) \/ s.stop
          THEN run' = [run EXCEPT ![side] = NoRun]
          ELSE run' = [run EXCEPT ![side] =
                         [st EXCEPT !.at = "writing", !.newPrice = s.newPrice,
                                    !.usage = s.expectedBaseUsage,
                                    !.levels = Append(st.levels, Level(c, s.priceToUse)),
                                    !.key = MapKey(c, s.priceToUse),
                                    !.value = MapValue(c, s.newPrice)]]
       /\ UNCHANGED <<IsCcxtTradeHistoryHack, price2LastPrice, config, provider, tradeHistory,
                      glCall, emitted, lastEmitted>>

\* what the assignment can leave in the map: the map with the entry, or, while
\* the other side is writing too, the map without it
MapWrites(side) ==
    {Upsert(price2LastPrice, run[side].key, run[side].value)}
    \cup IF Writing(Other(side)) THEN {price2LastPrice} ELSE {}

\* the assignment to the map entry completes, and the pass of the loop with it
GetLevelsWrite(side) ==
    /\ Writing(side)
    /\ price2LastPrice' \in MapWrites(side)
    /\ run' = [run EXCEPT ![side].at = "loop", ![side].i = @ + 1,
                          ![side].baseExposed = Add(@, run[side].usage)]
    /\ UNCHANGED <<IsCcxtTradeHistoryHack, config, provider, tradeHistory, glCall, emitted,
                   lastEmitted>>

\* the runtime detects the concurrent access to the map and ends the process
FatalError ==
    /\ ConcurrentMapAccess
    /\ run' = [s \in Sides |-> [run[s] EXCEPT !.at = "fatal"]]
    /\ UNCHANGED <<IsCcxtTradeHistoryHack, price2LastPrice, config, provider, tradeHistory,
                   glCall, emitted, lastEmitted>>

(* ---- GetLevels with a balance that admits no level ---- *)

\* the parameters of the two sides with every spread strictly positive
PositiveSwingConfig == [SwingConfig EXCEPT !["buy"].offsetSpread = Whole(1)]

\* the balances GetLevels is called with, one of them above minBase by no more
\* than one level
ThinAssetBases == MaxAssetBases \cup {Whole(2)}

(* ---- the level creation loop on its own ---- *)

\* the parameters a provider of a side can be made with
LadderConfigs(side) ==
    {[SwingConfig[side] EXCEPT !.spread = spread, !.priceLimit = priceLimit,
                               !.minBase = minBase] :
        spread \in {Whole(1), Frac(1, 2)},
        priceLimit \in IF side = "sell" THEN {Whole(1), Frac(6, 5), Whole(3)}
                       ELSE {Frac(1, 8), Frac(1, 2)},
        minBase \in {Zero, One}}

\* the providers once they have reconciled their swing price
LadderProviders ==
    [Sides -> {[lastTradePrice |-> price, lastTradeCursor |-> InitialLastTradeCursor,
                isFirstTradeHistoryRun |-> FALSE] : price \in {Half, One}}]

\* the balances the loop is run with
LadderAssetBases == {Whole(2), Whole(3), Whole(4)}

\* GetLevels of one side at the head of its level creation loop
LadderRuns(c, p) ==
    {[NoRuns EXCEPT ![side] = [NoRun EXCEPT !.at = "loop", !.maxAssetBase = maxAssetBase,
                                            !.newPrice = StartPrice(c[side], p[side])]] :
        side \in Sides, maxAssetBase \in LadderAssetBases}

(* ---- the cursor after a page, as the strings it is made of ---- *)

MaxDigits == 2

\* the characters of a timestamp or of a transaction ID
DigitChars == <<"0", "1", "2", "3", "4", "5", "6", "7", "8", "9">>
Chars == {DigitChars[n] : n \in 1 .. 10} \cup {"-", "+", "x"}

IsDigit(c) == \E n \in 1 .. 10 : DigitChars[n] = c
DigitValue(c) == (CHOOSE n \in 1 .. 10 : DigitChars[n] = c) - 1

\* strconv.Atoi(str): an optional sign and decimal digits, read from the left
RECURSIVE AtoiFrom(_, _, _)
AtoiFrom(str, i, value) ==
    IF i > Len(str) THEN [err |-> FALSE, value |-> value]
    ELSE IF ~IsDigit(str[i]) THEN [err |-> TRUE, value |-> 0]
    ELSE AtoiFrom(str, i + 1, value * 10 + DigitValue(str[i]))
Atoi(str) ==
    IF str = <<>> THEN [err |-> TRUE, value |-> 0]
    ELSE IF str[1] \in {"-", "+"}
    THEN IF Len(str) = 1 THEN [err |-> TRUE, value |-> 0]
         ELSE LET r == AtoiFrom(str, 2, 0)
              IN [err |-> r.err, value |-> IF str[1] = "-" THEN 0 - r.value ELSE r.value]
    ELSE AtoiFrom(str, 1, 0)

\* strconv.FormatInt(n, 10)
RECURSIVE FormatNat(_)
FormatNat(n) ==
    IF n < 10 THEN <<DigitChars[n + 1]>>
    ELSE Append(FormatNat(n \div 10), DigitChars[(n % 10) + 1])
FormatInt(n) == IF n < 0 THEN <<"-">> \o FormatNat(0 - n) ELSE FormatNat(n)

\* the strings a timestamp can print as, and the transaction IDs of a trade
TimestampStrings == UNION {[1 .. n -> Chars] : n \in 0 .. MaxDigits}
TransactionIDs == {<<"7">>, <<"0", "9">>, <<"x", "1">>, <<>>}

\* a cursor that is the timestamp as it is, when the cursor is inclusive
AdvanceCursorUnconverted(lastTrade, hack) ==
    IF hack THEN [err |-> Atoi(lastTrade.timestamp).err, lastCursor |-> lastTrade.timestamp]
    ELSE [err |-> FALSE, lastCursor |-> lastTrade.transactionID]

\* the new lastCursor after a page that ends with lastTrade
AdvanceCursor(lastTrade, hack) ==
    IF hack
    THEN LET i64Cursor == Atoi(lastTrade.timestamp)
         IN IF i64Cursor.err THEN [err |-> TRUE, lastCursor |-> <<>>]
            ELSE [err |-> FALSE, lastCursor |-> FormatInt(i64Cursor.value + 1)]
    ELSE [err |-> FALSE, lastCursor |-> lastTrade.transactionID]

\* no page has ended yet
NoCursorCall == [done |-> FALSE, transactionID |-> <<>>, timestamp |-> <<>>, err |-> FALSE,
                 lastCursor |-> <<>>]

\* the last trades a page can end with
LastTrades ==
    {[NoCursorCall EXCEPT !.transactionID = id, !.timestamp = ts] :
        id \in TransactionIDs, ts \in TimestampStrings}

\* a non-empty page ends: lastCursor is advanced, or the poll fails
AdvanceLastCursor ==
    /\ ~cursorCall.done
    /\ LET r == AdvanceCursor(cursorCall, IsCcxtTradeHistoryHack)
       IN cursorCall' = [cursorCall EXCEPT !.done = TRUE, !.err = r.err,
                                           !.lastCursor = r.lastCursor]
    /\ UNCHANGED IsCcxtTradeHistoryHack

(* ---- getLastPriceFromMap, entry by entry ---- *)

MaxMapPrice == 3

\* the prices a map entry can be at, and the swing prices it can map to
MapPrices == {Whole(n) : n \in 1 .. MaxMapPrice}
SwingPrices == {Frac(1, 2), Frac(3, 2)}

\* the maps price2LastPrice can be
PriceMaps == UNION {[keys -> SwingPrices] : keys \in SUBSET MapPrices}

\* no getLastPriceFromMap call in progress
NoScan == [at |-> "idle", tradePrice |-> MinusOne, lastTradeIsBuy |-> FALSE, visited |-> {},
           closestOfferPrice |-> MinusOne, lastPrice |-> MinusOne]

\* getLastPriceFromMap(mapData, tradePrice, lastTradeIsBuy) is called
LookupCalls ==
    {[NoScan EXCEPT !.at = "called", !.tradePrice = t, !.lastTradeIsBuy = b] :
        t \in MapPrices, b \in BOOLEAN}

\* the exact lookup: the entry at tradePrice is returned, or the range over
\* the map starts
LookupExact ==
    /\ scan.at = "called"
    /\ IF scan.tradePrice \in DOMAIN price2LastPrice
       THEN scan' = [scan EXCEPT !.at = "returned",
                                 !.lastPrice = price2LastPrice[scan.tradePrice]]
       ELSE scan' = [scan EXCEPT !.at = "range"]
    /\ UNCHANGED price2LastPrice

\* one iteration of the range over the map, on an entry it has not visited yet
LookupVisit(offerPrice) ==
    /\ scan.at = "range"
    /\ offerPrice \in DOMAIN price2LastPrice \ scan.visited
    /\ LET st == ScanStep(price2LastPrice, scan.tradePrice, scan.lastTradeIsBuy,
                          [closestOfferPrice |-> scan.closestOfferPrice,
                           lastPrice |-> scan.lastPrice], offerPrice)
       IN scan' = [scan EXCEPT !.visited = @ \cup {offerPrice},
                               !.closestOfferPrice = st.closestOfferPrice,
                               !.lastPrice = st.lastPrice]
    /\ UNCHANGED price2LastPrice

\* the range is over and lastPrice is returned
LookupReturn ==
    /\ scan.at = "range"
    /\ scan.visited = DOMAIN price2LastPrice
    /\ scan' = [scan EXCEPT !.at = "returned"]
    /\ UNCHANGED price2LastPrice

(* ---- fetchLatestTradePrice, page by page ---- *)

MaxPolledTrades == 3

\* the calls of GetTradeHistory are counted up to this number
MaxPages == MaxPolledTrades + 2

\* the trade histories the exchange can hold when a poll starts, each trade at
\* a price of its own
PolledHistories ==
    UNION {{[n \in 1 .. len |-> Trade(n, Whole(n), isBuy[n])] : isBuy \in [1 .. len -> BOOLEAN]} :
              len \in 0 .. MaxPolledTrades}

\* no fetchLatestTradePrice call in progress
NoPoll == [active |-> FALSE, side |-> "sell", lastPrice |-> MinusOne, lastCursor |-> 0,
           lastIsBuy |-> FALSE, pages |-> 0, err |-> FALSE]

\* fetchLatestTradePrice() of a provider is called: its locals before the loop
PollStart(side) ==
    /\ ~poll.active
    /\ poll' = [active |-> TRUE, side |-> side, lastPrice |-> provider[side].lastTradePrice,
                lastCursor |-> provider[side].lastTradeCursor, lastIsBuy |-> FALSE,
                pages |-> 0, err |-> FALSE]
    /\ UNCHANGED <<IsCcxtTradeHistoryHack, provider, tradeHistory>>

\* a pass that keeps the price of the first page it saw
PollPageKeepingFirstPrice(fails) ==
    /\ poll.active
    /\ LET trades == GetTradeHistory(tradeHistory, poll.lastCursor, IsCcxtTradeHistoryHack)
           pages == Min(poll.pages + 1, MaxPages)
       IN IF fails
          THEN poll' = [poll EXCEPT !.active = FALSE, !.err = TRUE, !.lastPrice = Zero,
                                    !.lastCursor = 0, !.lastIsBuy = FALSE, !.pages = pages]
          ELSE IF Len(trades) = 0
          THEN poll' = [poll EXCEPT !.active = FALSE, !.pages = pages]
          ELSE LET lastTrade == trades[Len(trades)]
               IN poll' = [poll EXCEPT !.lastCursor =
                                           NextCursor(lastTrade, IsCcxtTradeHistoryHack),
                                       !.lastIsBuy = lastTrade.isBuy,
                                       !.lastPrice = IF poll.pages = 0 THEN lastTrade.price
                                                     ELSE poll.lastPrice,
                                       !.pages = pages]
    /\ UNCHANGED <<IsCcxtTradeHistoryHack, provider, tradeHistory>>

\* one pass of the loop of fetchLatestTradePrice: a call of GetTradeHistory,
\* which fails, returns an empty page or returns trades
PollPage(fails) ==
    /\ poll.active
    /\ LET trades == GetTradeHistory(tradeHistory, poll.lastCursor, IsCcxtTradeHistoryHack)
           pages == Min(poll.pages + 1, MaxPages)
       IN IF fails
          THEN poll' = [poll EXCEPT !.active = FALSE, !.err = TRUE, !.lastPrice = Zero,
                                    !.lastCursor = 0, !.lastIsBuy = FALSE, !.pages = pages]
          ELSE IF Len(trades) = 0
          THEN poll' = [poll EXCEPT !.active = FALSE, !.pages = pages]
          ELSE LET lastTrade == trades[Len(trades)]
               IN poll' = [poll EXCEPT !.lastCursor =
                                           NextCursor(lastTrade, IsCcxtTradeHistoryHack),
                                       !.lastIsBuy = lastTrade.isBuy,
                                       !.lastPrice = lastTrade.price,
                                       !.pages = pages]
    /\ UNCHANGED <<IsCcxtTradeHistoryHack, provider, tradeHistory>>

(***************************************************************************)
(* CONSTRUCTION OF THE VOLUME FILTER (makeFilterVolume)                    *)
(***************************************************************************)
MaxMarketIDs == 3

\* volumeFilterModeExact and volumeFilterModeIgnore
VolumeFilterModes == {"exact", "ignore"}

\* MakeMarketID(exchangeName, base, quote) of the filter's own market, and the
\* market IDs a configuration can name
FirstMarketID == "own"
MarketIDs == {FirstMarketID, "marketID1", "marketID2"}

\* the lists of additionalMarketIDs of a configuration
MarketIDLists == UNION {[1 .. n -> MarketIDs] : n \in 0 .. MaxMarketIDs}

\* whether elem is among the first n elements of list
Seen(list, n, elem) == \E j \in 1 .. n : list[j] = elem

\* utils.Dedupe(list): the elements of list in the order of their first
\* occurrence, each once
RECURSIVE DedupeFrom(_, _, _)
DedupeFrom(list, i, out) ==
    IF i > Len(list) THEN out
    ELSE DedupeFrom(list, i + 1, IF Seen(list, i - 1, list[i]) THEN out
                                 ELSE Append(out, list[i]))
Dedupe(list) == DedupeFrom(list, 1, <<>>)

\* a list of market IDs for the daily-volume query that is not deduplicated
QueryMarketIDsUndeduped(firstMarketID, marketIDs) == <<firstMarketID>> \o marketIDs

\* the market IDs bound into the daily-volume query
QueryMarketIDs(firstMarketID, marketIDs) == Dedupe(<<firstMarketID>> \o marketIDs)

\* makeFilterVolume not called yet
NoVolumeFilter == [made |-> FALSE, mode |-> "exact", additionalMarketIDs |-> <<>>,
                   queryMarketIDs |-> <<>>]

\* a VolumeFilterConfig (makeTestVolumeFilterConfig) the filter is not made from yet
VolumeFilterConfigs ==
    {[made |-> FALSE, mode |-> m, additionalMarketIDs |-> ids, queryMarketIDs |-> <<>>] :
        m \in VolumeFilterModes, ids \in MarketIDLists}

\* makeFilterVolume(..., config): the filter with its daily-volume query
MakeFilterVolume ==
    /\ ~volumeFilter.made
    /\ volumeFilter' =
           [volumeFilter EXCEPT !.made = TRUE,
                                !.queryMarketIDs =
                                    QueryMarketIDs(FirstMarketID, volumeFilter.additionalMarketIDs)]

\* the configuration is replaced before the filter is made from it
Reconfigure(mode, marketIDs) ==
    /\ ~volumeFilter.made
    /\ volumeFilter' = [volumeFilter EXCEPT !.mode = mode, !.additionalMarketIDs = marketIDs]


(***************************************************************************)
(* SPECIFICATIONS                                                          *)
(***************************************************************************)
\* the providers the bot makes at start, one per side, with the parameters of
\* its side
NewProviders ==
    [s \in Sides |-> MakeSwingLevelProvider(InitialLastTradePrice, InitialLastTradeCursor)]
VolumeNext ==
    \/ \E price \in 1 .. MaxPriceNum, amount \in 0 .. MaxAmount :
           ApplyVolumeFilter(price, amount) /\ UNCHANGED <<submitVars, swingVars, stepVars, makeFilterVars>>
    \/ \E otb \in Volumes : NewCycle(otb) /\ UNCHANGED <<submitVars, swingVars, stepVars, makeFilterVars>>

SubmitNext ==
    \/ \E ops \in Batches, obFails \in BOOLEAN :
           SubmitFilterApply(ops, obFails) /\ UNCHANGED <<volumeVars, swingVars, stepVars, makeFilterVars>>
    \/ \E ops \in Batches :
           SubmitUnfiltered(ops) /\ UNCHANGED <<volumeVars, swingVars, stepVars, makeFilterVars>>
    \/ \E ob \in OrderBooks :
           OrderBookUpdate(ob) /\ UNCHANGED <<volumeVars, swingVars, stepVars, makeFilterVars>>

SwingNext ==
    \/ \E side \in Sides, maxAssetBase \in MaxAssetBases, failAt \in 0 .. MaxTrades + 1 :
           GetLevels(side, maxAssetBase, failAt) /\ UNCHANGED <<volumeVars, submitVars, stepVars, makeFilterVars>>
    \/ \E price \in DOMAIN price2LastPrice \cup OtherTradePrices, isBuy \in BOOLEAN :
           NewTrade(price, isBuy) /\ UNCHANGED <<volumeVars, submitVars, stepVars, makeFilterVars>>

\* a cycle's filter with its limits and its OTB snapshot, TBB at zero
VolumeInit ==
    /\ lp \in [sellBaseAssetCapInBaseUnits : Caps, sellBaseAssetCapInQuoteUnits : Caps]
    /\ dailyOTB \in Volumes
    /\ dailyTBB = ZeroVolume
    /\ vfCall = NoVfCall
    /\ submitMode = SubmitModeBoth
    /\ filter = NilFilter
    /\ orderBook = EmptyOrderBook
    /\ applyCall = NoApplyCall
    /\ IsCcxtTradeHistoryHack = FALSE
    /\ price2LastPrice = EmptyMap
    /\ config = SwingConfig
    /\ provider = NewProviders
    /\ tradeHistory = <<>>
    /\ glCall = NoGlCall
    /\ emitted = {}
    /\ lastEmitted = EmptyMap
    /\ run = NoRuns
    /\ poll = NoPoll
    /\ cursorCall = NoCursorCall
    /\ scan = NoScan
    /\ volumeFilter = NoVolumeFilter

\* the trader after makeSubmitFilter(submitMode, sdex, tradingPair)
SubmitInit ==
    /\ submitMode \in SubmitModes
    /\ filter = MakeSubmitFilter(submitMode)
    /\ orderBook \in OrderBooks
    /\ applyCall = NoApplyCall
    /\ lp = NoLimits
    /\ dailyOTB = ZeroVolume
    /\ dailyTBB = ZeroVolume
    /\ vfCall = NoVfCall
    /\ IsCcxtTradeHistoryHack = FALSE
    /\ price2LastPrice = EmptyMap
    /\ config = SwingConfig
    /\ provider = NewProviders
    /\ tradeHistory = <<>>
    /\ glCall = NoGlCall
    /\ emitted = {}
    /\ lastEmitted = EmptyMap
    /\ run = NoRuns
    /\ poll = NoPoll
    /\ cursorCall = NoCursorCall
    /\ scan = NoScan
    /\ volumeFilter = NoVolumeFilter

\* the two providers of a market after makeSwingLevelProvider, the map empty
SwingInit ==
    /\ IsCcxtTradeHistoryHack \in BOOLEAN
    /\ price2LastPrice = EmptyMap
    /\ config = SwingConfig
    /\ provider = NewProviders
    /\ tradeHistory = <<>>
    /\ glCall = NoGlCall
    /\ emitted = {}
    /\ lastEmitted = EmptyMap
    /\ lp = NoLimits
    /\ dailyOTB = ZeroVolume
    /\ dailyTBB = ZeroVolume
    /\ vfCall = NoVfCall
    /\ submitMode = SubmitModeBoth
    /\ filter = NilFilter
    /\ orderBook = EmptyOrderBook
    /\ applyCall = NoApplyCall
    /\ run = NoRuns
    /\ poll = NoPoll
    /\ cursorCall = NoCursorCall
    /\ scan = NoScan
    /\ volumeFilter = NoVolumeFilter

\* the two providers of a market, each run by its own goroutine
ConcurrentNext ==
    \/ \E side \in Sides, maxAssetBase \in MaxAssetBases, failAt \in 0 .. MaxTrades + 1 :
           /\ GetLevelsEnter(side, maxAssetBase, failAt)
           /\ UNCHANGED <<volumeVars, submitVars, poll, scan, cursorCall, makeFilterVars>>
    \/ \E side \in Sides :
           GetLevelsRead(side) /\ UNCHANGED <<volumeVars, submitVars, poll, scan, cursorCall, makeFilterVars>>
    \/ \E side \in Sides :
           GetLevelsLoop(side) /\ UNCHANGED <<volumeVars, submitVars, poll, scan, cursorCall, makeFilterVars>>
    \/ \E side \in Sides :
           GetLevelsWrite(side) /\ UNCHANGED <<volumeVars, submitVars, poll, scan, cursorCall, makeFilterVars>>
    \/ FatalError /\ UNCHANGED <<volumeVars, submitVars, poll, scan, cursorCall, makeFilterVars>>
    \/ \E price \in DOMAIN price2LastPrice \cup OtherTradePrices, isBuy \in BOOLEAN :
           NewTrade(price, isBuy) /\ UNCHANGED <<volumeVars, submitVars, stepVars, makeFilterVars>>

ConcurrentInit ==
    /\ IsCcxtTradeHistoryHack \in BOOLEAN
    /\ price2LastPrice = EmptyMap
    /\ config = SwingConfig
    /\ provider = NewProviders
    /\ tradeHistory = <<>>
    /\ glCall = NoGlCall
    /\ emitted = {}
    /\ lastEmitted = EmptyMap
    /\ run = NoRuns
    /\ poll = NoPoll
    /\ cursorCall = NoCursorCall
    /\ scan = NoScan
    /\ lp = NoLimits
    /\ dailyOTB = ZeroVolume
    /\ dailyTBB = ZeroVolume
    /\ vfCall = NoVfCall
    /\ submitMode = SubmitModeBoth
    /\ filter = NilFilter
    /\ orderBook = EmptyOrderBook
    /\ applyCall = NoApplyCall
    /\ volumeFilter = NoVolumeFilter

MakeFilterNext ==
    \/ MakeFilterVolume /\ UNCHANGED <<volumeVars, submitVars, swingVars, stepVars>>
    \/ \E mode \in VolumeFilterModes, marketIDs \in MarketIDLists :
           Reconfigure(mode, marketIDs) /\ UNCHANGED <<volumeVars, submitVars, swingVars, stepVars>>

\* a configuration of the volume filter, the filter not made yet
MakeFilterInit ==
    /\ volumeFilter \in VolumeFilterConfigs
    /\ lp = NoLimits
    /\ dailyOTB = ZeroVolume
    /\ dailyTBB = ZeroVolume
    /\ vfCall = NoVfCall
    /\ submitMode = SubmitModeBoth
    /\ filter = NilFilter
    /\ orderBook = EmptyOrderBook
    /\ applyCall = NoApplyCall
    /\ IsCcxtTradeHistoryHack = FALSE
    /\ price2LastPrice = EmptyMap
    /\ config = SwingConfig
    /\ provider = NewProviders
    /\ tradeHistory = <<>>
    /\ glCall = NoGlCall
    /\ emitted = {}
    /\ lastEmitted = EmptyMap
    /\ run = NoRuns
    /\ poll = NoPoll
    /\ cursorCall = NoCursorCall
    /\ scan = NoScan

LookupNext ==
    \/ LookupExact /\ UNCHANGED <<volumeVars, submitVars, IsCcxtTradeHistoryHack, config,
                                   provider, tradeHistory, glCall, emitted, lastEmitted, run,
                                   poll, cursorCall, makeFilterVars>>
    \/ \E offerPrice \in MapPrices :
           /\ LookupVisit(offerPrice)
           /\ UNCHANGED <<volumeVars, submitVars, IsCcxtTradeHistoryHack, config, provider,
                          tradeHistory, glCall, emitted, lastEmitted, run, poll,
                          cursorCall, makeFilterVars>>
    \/ LookupReturn /\ UNCHANGED <<volumeVars, submitVars, IsCcxtTradeHistoryHack, config,
                                    provider, tradeHistory, glCall, emitted, lastEmitted, run,
                                    poll, cursorCall, makeFilterVars>>

\* a call of getLastPriceFromMap on a map, for a trade price and a direction
LookupInit ==
    /\ price2LastPrice \in PriceMaps
    /\ scan \in LookupCalls
    /\ IsCcxtTradeHistoryHack = FALSE
    /\ config = SwingConfig
    /\ provider = NewProviders
    /\ tradeHistory = <<>>
    /\ glCall = NoGlCall
    /\ emitted = {}
    /\ lastEmitted = EmptyMap
    /\ run = NoRuns
    /\ poll = NoPoll
    /\ cursorCall = NoCursorCall
    /\ lp = NoLimits
    /\ dailyOTB = ZeroVolume
    /\ dailyTBB = ZeroVolume
    /\ vfCall = NoVfCall
    /\ submitMode = SubmitModeBoth
    /\ filter = NilFilter
    /\ orderBook = EmptyOrderBook
    /\ applyCall = NoApplyCall
    /\ volumeFilter = NoVolumeFilter

PollNext ==
    \/ \E side \in Sides :
           /\ PollStart(side)
           /\ UNCHANGED <<volumeVars, submitVars, price2LastPrice, config, glCall, emitted,
                          lastEmitted, run, scan, cursorCall, makeFilterVars>>
    \/ \E fails \in BOOLEAN :
           /\ PollPage(fails)
           /\ UNCHANGED <<volumeVars, submitVars, price2LastPrice, config, glCall, emitted,
                          lastEmitted, run, scan, cursorCall, makeFilterVars>>

\* a provider and an exchange that holds finitely many trades of the pair
PollInit ==
    /\ IsCcxtTradeHistoryHack \in BOOLEAN
    /\ tradeHistory \in PolledHistories
    /\ provider = NewProviders
    /\ poll = NoPoll
    /\ cursorCall = NoCursorCall
    /\ price2LastPrice = EmptyMap
    /\ config = SwingConfig
    /\ glCall = NoGlCall
    /\ emitted = {}
    /\ lastEmitted = EmptyMap
    /\ run = NoRuns
    /\ scan = NoScan
    /\ lp = NoLimits
    /\ dailyOTB = ZeroVolume
    /\ dailyTBB = ZeroVolume
    /\ vfCall = NoVfCall
    /\ submitMode = SubmitModeBoth
    /\ filter = NilFilter
    /\ orderBook = EmptyOrderBook
    /\ applyCall = NoApplyCall
    /\ volumeFilter = NoVolumeFilter

CursorNext ==
    /\ AdvanceLastCursor
    /\ UNCHANGED <<volumeVars, submitVars, price2LastPrice, config, provider, tradeHistory,
                   glCall, emitted, lastEmitted, run, poll, scan, makeFilterVars>>

\* the last trade of a non-empty page, under either kind of cursor
CursorInit ==
    /\ IsCcxtTradeHistoryHack \in BOOLEAN
    /\ cursorCall \in LastTrades
    /\ price2LastPrice = EmptyMap
    /\ config = SwingConfig
    /\ provider = NewProviders
    /\ tradeHistory = <<>>
    /\ glCall = NoGlCall
    /\ emitted = {}
    /\ lastEmitted = EmptyMap
    /\ run = NoRuns
    /\ poll = NoPoll
    /\ scan = NoScan
    /\ lp = NoLimits
    /\ dailyOTB = ZeroVolume
    /\ dailyTBB = ZeroVolume
    /\ vfCall = NoVfCall
    /\ submitMode = SubmitModeBoth
    /\ filter = NilFilter
    /\ orderBook = EmptyOrderBook
    /\ applyCall = NoApplyCall
    /\ volumeFilter = NoVolumeFilter

LadderNext ==
    \/ \E side \in Sides :
           /\ GetLevelsLoop(side)
           /\ UNCHANGED <<volumeVars, submitVars, poll, scan, cursorCall, makeFilterVars>>
    \/ \E side \in Sides :
           /\ GetLevelsWrite(side)
           /\ UNCHANGED <<volumeVars, submitVars, poll, scan, cursorCall, makeFilterVars>>

\* one provider at the head of its level creation loop
LadderInit ==
    /\ config \in [sell : LadderConfigs("sell"), buy : LadderConfigs("buy")]
    /\ provider \in LadderProviders
    /\ run \in LadderRuns(config, provider)
    /\ IsCcxtTradeHistoryHack = FALSE
    /\ price2LastPrice = EmptyMap
    /\ tradeHistory = <<>>
    /\ glCall = NoGlCall
    /\ emitted = {}
    /\ lastEmitted = EmptyMap
    /\ poll = NoPoll
    /\ scan = NoScan
    /\ cursorCall = NoCursorCall
    /\ lp = NoLimits
    /\ dailyOTB = ZeroVolume
    /\ dailyTBB = ZeroVolume
    /\ vfCall = NoVfCall
    /\ submitMode = SubmitModeBoth
    /\ filter = NilFilter
    /\ orderBook = EmptyOrderBook
    /\ applyCall = NoApplyCall
    /\ volumeFilter = NoVolumeFilter

ThinBalanceNext ==
    \/ \E side \in Sides, maxAssetBase \in ThinAssetBases, failAt \in 0 .. MaxTrades + 1 :
           /\ GetLevels(side, maxAssetBase, failAt)
           /\ UNCHANGED <<volumeVars, submitVars, stepVars, makeFilterVars>>
    \/ \E price \in DOMAIN price2LastPrice \cup OtherTradePrices, isBuy \in BOOLEAN :
           NewTrade(price, isBuy) /\ UNCHANGED <<volumeVars, submitVars, stepVars, makeFilterVars>>

\* the two providers of a market after makeSwingLevelProvider, the map empty
\* and every spread strictly positive
ThinBalanceInit ==
    /\ IsCcxtTradeHistoryHack \in BOOLEAN
    /\ price2LastPrice = EmptyMap
    /\ config = PositiveSwingConfig
    /\ provider = NewProviders
    /\ tradeHistory = <<>>
    /\ glCall = NoGlCall
    /\ emitted = {}
    /\ lastEmitted = EmptyMap
    /\ run = NoRuns
    /\ poll = NoPoll
    /\ scan = NoScan
    /\ cursorCall = NoCursorCall
    /\ lp = NoLimits
    /\ dailyOTB = ZeroVolume
    /\ dailyTBB = ZeroVolume
    /\ vfCall = NoVfCall
    /\ submitMode = SubmitModeBoth
    /\ filter = NilFilter
    /\ orderBook = EmptyOrderBook
    /\ applyCall = NoApplyCall
    /\ volumeFilter = NoVolumeFilter

SpecVolume == VolumeInit /\ [][VolumeNext]_vars

SpecSubmit == SubmitInit /\ [][SubmitNext]_vars

SpecSwing == SwingInit /\ [][SwingNext]_vars

SpecConcurrent == ConcurrentInit /\ [][ConcurrentNext]_vars

SpecMakeFilter == MakeFilterInit /\ [][MakeFilterNext]_vars

SpecLookup == LookupInit /\ [][LookupNext]_vars

SpecPoll == PollInit /\ [][PollNext]_vars

SpecCursor == CursorInit /\ [][CursorNext]_vars

SpecLadder == LadderInit /\ [][LadderNext]_vars

SpecThinBalance == ThinBalanceInit /\ [][ThinBalanceNext]_vars

\* the loop of fetchLatestTradePrice runs on: every call of GetTradeHistory
\* returns, and the next pass follows
FairSpecPoll == SpecPoll /\ WF_poll(\E fails \in BOOLEAN : PollPage(fails))

(***************************************************************************)
(* CLAIMS: volume admission filter                                         *)
(***************************************************************************)
BaseCapSet == lp.sellBaseAssetCapInBaseUnits # NoCap
QuoteCapSet == lp.sellBaseAssetCapInQuoteUnits # NoCap

\* what the last call found left under each cap, from the recorded inputs
CallAvailableBase == lp.sellBaseAssetCapInBaseUnits - (vfCall.otb.base + vfCall.tbbBefore.base)
CallAvailableQuote ==
    lp.sellBaseAssetCapInQuoteUnits - (vfCall.otb.quote + vfCall.tbbBefore.quote)

\* C1: whatever the caps and whatever operations went through the filter
\* before on the same OTB snapshot and TBB accumulator, after an admission
\* OTB.base + TBB.base is at most the base cap (when set) and
\* OTB.quote + TBB.quote is at most the quote cap (when set).
C1_NeverExceedsCaps ==
    (vfCall.called /\ ~vfCall.out.none) =>
        /\ BaseCapSet => dailyOTB.base + dailyTBB.base <= lp.sellBaseAssetCapInBaseUnits
        /\ QuoteCapSet => dailyOTB.quote + dailyTBB.quote <= lp.sellBaseAssetCapInQuoteUnits

\* a second operation of a cycle is cut down to what the first one left under
\* the base cap, and a third one to what is left under the quote cap
C1_Witness ==
    /\ vfCall.called /\ ~vfCall.out.none
    /\ BaseCapSet /\ QuoteCapSet
    /\ vfCall.tbbBefore.base > 0
    /\ vfCall.out.amount > 0 /\ vfCall.out.amount < vfCall.op.amount
    /\ dailyOTB.quote + dailyTBB.quote = lp.sellBaseAssetCapInQuoteUnits

\* C2 as stated: the admitted amount is exactly
\* min(a, availableBase, availableQuote / p); here multiplied through by p.
C2_ExactMinimum ==
    (vfCall.called /\ ~vfCall.out.none) =>
        LET a == vfCall.op.amount
            p == vfCall.op.price
            viaBase == IF BaseCapSet THEN Min(a * p, CallAvailableBase * p) ELSE a * p
            exact == IF QuoteCapSet THEN Min(viaBase, CallAvailableQuote) ELSE viaBase
        IN vfCall.out.amount * p = exact

\* the amounts m the caps leave room for, for the last call's operation
C2_Fits(m) ==
    /\ m <= vfCall.op.amount
    /\ BaseCapSet => m <= CallAvailableBase
    /\ QuoteCapSet => m * vfCall.op.price <= CallAvailableQuote

\* C2 amended: the admitted amount is min(a, availableBase, availableQuote / p)
\* rounded down to a whole number of ticks, that is the largest amount in
\* ticks that is at most a, at most availableBase and whose quote equivalent
\* is at most availableQuote; the operation keeps its price; it is dropped
\* exactly when that minimum is <= 0.
C2_MinimumRoundedDown ==
    vfCall.called =>
        IF vfCall.out.none
        THEN \/ vfCall.op.amount <= 0
             \/ BaseCapSet /\ CallAvailableBase <= 0
             \/ QuoteCapSet /\ CallAvailableQuote <= 0
        ELSE /\ vfCall.op.amount > 0
             /\ BaseCapSet => CallAvailableBase > 0
             /\ QuoteCapSet => CallAvailableQuote > 0
             /\ vfCall.out.price = vfCall.op.price
             /\ C2_Fits(vfCall.out.amount)
             /\ ~C2_Fits(vfCall.out.amount + 1)

\* both caps set, the quote cap binds and the quote availability is no
\* multiple of the price: the amount is cut to the ticks that fit
C2_Witness ==
    /\ vfCall.called /\ ~vfCall.out.none
    /\ BaseCapSet /\ QuoteCapSet
    /\ vfCall.out.amount > 0
    /\ vfCall.out.amount < vfCall.op.amount
    /\ vfCall.out.amount < CallAvailableBase
    /\ vfCall.out.amount * vfCall.op.price < CallAvailableQuote

\* C3: a call changes TBB only when it admits, then by the admitted base
\* amount and by admitted amount * price; a dropped operation leaves TBB as
\* it was; OTB is as it was before the call.
C3_TBBFrame ==
    vfCall.called =>
        /\ dailyOTB = vfCall.otb
        /\ vfCall.out.none => dailyTBB = vfCall.tbbBefore
        /\ ~vfCall.out.none =>
               /\ dailyTBB.base = vfCall.tbbBefore.base + vfCall.out.amount
               /\ dailyTBB.quote = vfCall.tbbBefore.quote + vfCall.out.amount * vfCall.op.price

\* a partial admission at a price other than 1, on top of an earlier admission
C3_Witness ==
    /\ vfCall.called /\ ~vfCall.out.none
    /\ vfCall.op.price > 1
    /\ vfCall.tbbBefore.base > 0
    /\ vfCall.out.amount > 0 /\ vfCall.out.amount < vfCall.op.amount
    /\ dailyTBB # vfCall.tbbBefore

\* C4: with a base cap of exactly 0, or a quote cap of exactly 0, every
\* operation is dropped, whatever its price and amount and whatever OTB and
\* TBB hold.
C4_ZeroCapDropsAll ==
    (vfCall.called /\ (lp.sellBaseAssetCapInBaseUnits = 0 \/ lp.sellBaseAssetCapInQuoteUnits = 0))
        => vfCall.out.none /\ dailyTBB = vfCall.tbbBefore

\* a quote cap of 0 next to a base cap with room, nothing on the books
C4_Witness ==
    /\ vfCall.called /\ vfCall.out.none
    /\ lp.sellBaseAssetCapInQuoteUnits = 0
    /\ lp.sellBaseAssetCapInBaseUnits > 0
    /\ vfCall.otb = ZeroVolume /\ vfCall.tbbBefore = ZeroVolume
    /\ vfCall.op.amount > 0

\* C5: over the filter calls of a cycle TBB.base and TBB.quote never
\* decrease: every call leaves each at least where it found it.
C5_TBBMonotonic ==
    [][vfCall'.called => /\ dailyTBB'.base >= dailyTBB.base
                         /\ dailyTBB'.quote >= dailyTBB.quote]_vars

\* a second admission of a cycle has raised both volumes again
C5_Witness ==
    /\ vfCall.called
    /\ vfCall.tbbBefore.base > 0 /\ vfCall.tbbBefore.quote > 0
    /\ dailyTBB.base > vfCall.tbbBefore.base
    /\ dailyTBB.quote > vfCall.tbbBefore.quote

(***************************************************************************)
(* CLAIMS: swing level provider                                            *)
(***************************************************************************)
\* a step of GetLevels: it leaves its record in glCall and the trade history
\* as it is
GetLevelsStep == glCall'.called /\ tradeHistory' = tradeHistory

\* C6: a call of GetLevels with maxAssetBase <= minBase returns an empty
\* sequence and no error, calls GetTradeHistory not once, and leaves
\* lastTradeCursor, lastTradePrice and the first-run flag of both providers
\* and the map price2LastPrice as they were.
C6_NothingToExposeFrame ==
    [][(/\ GetLevelsStep
        /\ LessEq(glCall'.maxAssetBase, config[glCall'.side].minBase))
       => /\ glCall'.levels = <<>>
          /\ ~glCall'.err
          /\ glCall'.fetches = 0
          /\ UNCHANGED <<provider, price2LastPrice>>]_vars

\* such a call made when the provider has run before and the map has entries
C6_Witness ==
    /\ glCall.called
    /\ LessEq(glCall.maxAssetBase, config[glCall.side].minBase)
    /\ glCall.levels = <<>> /\ glCall.fetches = 0
    /\ ~provider[glCall.side].isFirstTradeHistoryRun
    /\ price2LastPrice # EmptyMap
    /\ tradeHistory # <<>>

\* C7: a call of GetLevels in which a call of GetTradeHistory fails, the
\* first or a later one, returns an error and no levels, and leaves
\* lastTradeCursor, lastTradePrice and the first-run flag of both providers
\* and the map price2LastPrice as they were before the call.
C7_FetchFailureFrame ==
    [][(GetLevelsStep /\ glCall'.fetchFailed)
       => /\ glCall'.err
          /\ glCall'.levels = <<>>
          /\ UNCHANGED <<provider, price2LastPrice>>]_vars

\* a call that failed on its second page, after a page with a new trade
C7_Witness ==
    /\ glCall.called
    /\ glCall.fetchFailed /\ glCall.err
    /\ glCall.fetches >= 2
    /\ price2LastPrice # EmptyMap

\* the i-th price of the ladder that starts at start: start compounded i
\* times by half the spread, then moved by half the offset spread
LadderPrice(c, start, i) ==
    Mul(Mul(start, Power(OnePlusHalf(c.spread), i)), OnePlusHalf(c.offsetSpread))

\* the base asset the first n levels of that ladder use
RECURSIVE LadderBaseUsage(_, _, _)
LadderBaseUsage(c, start, n) ==
    IF n = 0 THEN Zero
    ELSE Add(LadderBaseUsage(c, start, n - 1),
             IF c.useMaxQuoteInTargetAmountCalc
             THEN Div(c.amountBase, LadderPrice(c, start, n))
             ELSE c.amountBase)

\* placing the i-th level would leave no more than minBase
ExposureStop(c, start, maxAssetBase, i) ==
    LessEq(Sub(maxAssetBase, LadderBaseUsage(c, start, i)), c.minBase)

\* the i-th level is beyond the price limit of its side
PriceLimitStop(c, start, i) ==
    IF c.useMaxQuoteInTargetAmountCalc
    THEN Less(Div(One, LadderPrice(c, start, i)), c.priceLimit)
    ELSE Less(c.priceLimit, LadderPrice(c, start, i))

\* the last call of GetLevels fetched the trade history and no level of its
\* ladder met a stop
CallWithoutStop ==
    /\ glCall.called
    /\ ~glCall.err
    /\ \A i \in 1 .. config[glCall.side].maxLevels :
          /\ ~ExposureStop(config[glCall.side],
                           StartPrice(config[glCall.side], provider[glCall.side]),
                           glCall.maxAssetBase, i)
          /\ ~PriceLimitStop(config[glCall.side],
                             StartPrice(config[glCall.side], provider[glCall.side]), i)

\* how far a price is from the price the ladder starts at
Displacement(price, start) ==
    IF Less(price, start) THEN Sub(start, price) ELSE Sub(price, start)

\* C8 as the specification states it: without a stop there are maxLevels
\* levels, level i has the price swingPrice * (1 + spread/2)^i *
\* (1 + offsetSpread/2), and each level is strictly further from the swing
\* price than the level before it.
C8_ExactLadder ==
    CallWithoutStop =>
        LET c == config[glCall.side]
            start == StartPrice(c, provider[glCall.side])
        IN /\ Len(glCall.levels) = c.maxLevels
           /\ \A i \in 1 .. Len(glCall.levels) :
                 glCall.levels[i].price = LadderPrice(c, start, i)
           /\ \A i \in 2 .. Len(glCall.levels) :
                 Less(Displacement(glCall.levels[i - 1].price, start),
                      Displacement(glCall.levels[i].price, start))

\* C8: without a stop there are maxLevels levels; level i has the price
\* start * (1 + spread/2)^i * (1 + offsetSpread/2) rounded to the price
\* precision, where start is lastTradePrice on the sell side and
\* 1 / lastTradePrice on the buy side; before the rounding each price is
\* strictly further from start than the one before it, and after the
\* rounding no level is nearer to start than the one before it.
C8_RoundedLadder ==
    CallWithoutStop =>
        LET c == config[glCall.side]
            start == StartPrice(c, provider[glCall.side])
        IN /\ Len(glCall.levels) = c.maxLevels
           /\ \A i \in 1 .. Len(glCall.levels) :
                 glCall.levels[i].price = NumberFromFloat(LadderPrice(c, start, i))
           /\ \A i \in 2 .. Len(glCall.levels) :
                 /\ Less(Displacement(LadderPrice(c, start, i - 1), start),
                         Displacement(LadderPrice(c, start, i), start))
                 /\ LessEq(Displacement(glCall.levels[i - 1].price, start),
                           Displacement(glCall.levels[i].price, start))

\* a full ladder one of whose prices the rounding has moved
C8_Witness ==
    /\ CallWithoutStop
    /\ Len(glCall.levels) = MaxLevels
    /\ \E i \in 1 .. Len(glCall.levels) :
          glCall.levels[i].price #
              LadderPrice(config[glCall.side],
                          StartPrice(config[glCall.side], provider[glCall.side]), i)

\* a step of GetLevels by a provider that has run before, in which the fetch
\* finds a new last trade whose price is one a level has been emitted at
ReconcilesEmittedPrice ==
    /\ GetLevelsStep
    /\ ~glCall'.err
    /\ ~glCall'.firstRun
    /\ glCall'.newTrade
    /\ NumberFromFloat(glCall'.lastPrice) \in DOMAIN lastEmitted

\* C9 as the specification states it: a level was emitted at the quantized
\* price P from the swing price S, a later call of GetLevels finds a new last
\* trade at exactly P, and that call sets lastTradePrice to S.
C9_RecoversEverySwingPrice ==
    [][ReconcilesEmittedPrice
       => \A e \in emitted :
             e[1] = NumberFromFloat(glCall'.lastPrice)
                 => provider'[glCall'.side].lastTradePrice = e[2]]_vars

\* C9: a call of GetLevels by a provider that has run before, which finds a
\* new last trade at exactly a quantized price P that levels have been emitted
\* at, sets lastTradePrice to the swing price of the most recent level emitted
\* at P, by either provider.
C9_RecoversLatestSwingPrice ==
    [][ReconcilesEmittedPrice
       => provider'[glCall'.side].lastTradePrice =
              lastEmitted[NumberFromFloat(glCall'.lastPrice)]]_vars

\* the buy provider has taken over the swing price of a level it emitted, at a
\* price at which it had emitted a level from another swing price before
C9_Witness ==
    /\ glCall.called /\ ~glCall.err
    /\ glCall.side = "buy"
    /\ ~glCall.firstRun
    /\ glCall.newTrade
    /\ \E e \in emitted :
          /\ e[1] = NumberFromFloat(glCall.lastPrice)
          /\ e[2] = provider[glCall.side].lastTradePrice
    /\ \E e \in emitted :
          /\ e[1] = NumberFromFloat(glCall.lastPrice)
          /\ e[2] # provider[glCall.side].lastTradePrice
    /\ Len(glCall.levels) > 0

(***************************************************************************)
(* CLAIMS: submit-mode filter                                              *)
(***************************************************************************)
\* an operation that would take liquidity from the book: a sell at or below
\* the best bid, a buy at or above the best ask
Crosses(op, ob) == IF op.isSell THEN op.price <= ob.bid ELSE op.price >= ob.ask

\* the operations of a batch that satisfy keep, in the batch's order
RECURSIVE SelectOps(_, _, _)
SelectOps(ops, ob, wantCrossing) ==
    IF ops = <<>> THEN <<>>
    ELSE LET rest == SelectOps(Tail(ops), ob, wantCrossing)
         IN IF Crosses(Head(ops), ob) = wantCrossing THEN <<Head(ops)>> \o rest ELSE rest

\* C10: with SubmitMode MakerOnly the output of apply holds no operation
\* that crosses the book, and every non-crossing operation of the input is in
\* the output unchanged.
C10_MakerOnlyKeepsNonCrossing ==
    (applyCall.called /\ filter.submitMode = SubmitModeMakerOnly) =>
        /\ \A i \in DOMAIN applyCall.out : ~Crosses(applyCall.out[i], applyCall.ob)
        /\ applyCall.out = SelectOps(applyCall.ops, applyCall.ob, FALSE)

\* C11: with SubmitMode TakerOnly the output of apply is exactly the
\* operations of the input that cross the book: every crossing operation is
\* kept and every non-crossing operation is removed.
C11_TakerOnlyKeepsCrossing ==
    (applyCall.called /\ filter.submitMode = SubmitModeTakerOnly) =>
        applyCall.out = SelectOps(applyCall.ops, applyCall.ob, TRUE)

\* C12: there is a filter exactly when the mode is MakerOnly or TakerOnly, the
\* filter has that mode and neither of the two ever changes; with the mode
\* Both there is no filter, apply is not called and the batch goes on as it
\* came.
C12_FilterExactlyForMakerOrTaker ==
    /\ [](/\ filter.isNil <=> submitMode = SubmitModeBoth
          /\ ~filter.isNil => filter.submitMode = submitMode
          /\ filter.isNil => /\ ~applyCall.called
                             /\ ~applyCall.err
                             /\ applyCall.out = applyCall.ops)
    /\ [][filter' = filter /\ submitMode' = submitMode]_vars

\* a batch of two operations has gone on unfiltered under the mode Both
C12_Witness ==
    /\ submitMode = SubmitModeBoth
    /\ filter.isNil
    /\ Len(applyCall.ops) = MaxOps
    /\ applyCall.out = applyCall.ops

\* C13: apply fetches the top of the book before it filters, so the mode
\* filters get the best bid and ask of the market, and when the fetch fails
\* apply returns an error and no operations.
C13_FetchesBookAndAbortsOnError ==
    applyCall.called =>
        /\ applyCall.obHanded = applyCall.ob
        /\ applyCall.obFails => (applyCall.err /\ applyCall.out = <<>>)

\* C14: while the two providers run GetLevels concurrently, no side reads or
\* scans price2LastPrice while the other side is writing it, and the two sides
\* never write it at once.
C14_MapAccessMutuallyExclusive ==
    \A s \in Sides : Writing(s) => ~(Reading(Other(s)) \/ Writing(Other(s)))

(* ---- construction of the volume filter ---- *)

\* the position of the first occurrence of id in the own market ID followed by
\* the configured additional market IDs
FirstOccurrence(id) ==
    LET all == <<FirstMarketID>> \o volumeFilter.additionalMarketIDs
    IN CHOOSE i \in 1 .. Len(all) : all[i] = id /\ \A j \in 1 .. i - 1 : all[j] # id

\* C15: the market IDs bound into the daily-volume query of a made filter are
\* the own market ID followed by the configured additional market IDs with the
\* repetitions removed: no ID twice, the own market first and so exactly once,
\* exactly the IDs of the own market and of the configuration, in the order of
\* their first occurrence; the same in the modes Exact and Ignore.
C15_QueryMarketIDsDeduplicated ==
    volumeFilter.made =>
        LET q == volumeFilter.queryMarketIDs
            ids == volumeFilter.additionalMarketIDs
        IN /\ \A i, j \in 1 .. Len(q) : q[i] = q[j] => i = j
           /\ Len(q) >= 1 /\ q[1] = FirstMarketID
           /\ {q[i] : i \in 1 .. Len(q)} = {FirstMarketID} \cup {ids[i] : i \in 1 .. Len(ids)}
           /\ \A i, j \in 1 .. Len(q) : i < j => FirstOccurrence(q[i]) < FirstOccurrence(q[j])

\* a filter made in the mode Ignore from a list that repeats a market ID and
\* names the own market
C15_Witness ==
    /\ volumeFilter.made
    /\ volumeFilter.mode = "ignore"
    /\ volumeFilter.additionalMarketIDs = <<"marketID1", "marketID1", FirstMarketID>>
    /\ volumeFilter.queryMarketIDs = <<FirstMarketID, "marketID1">>

(* ---- the swing state across calls ---- *)

\* the cursor a poll from the given cursor ends on: the given one when the
\* history has no trade after it, else the one of the newest trade
ObservedCursor(history, cursor, hack) ==
    IF \E n \in 1 .. Len(history) : IsAfterCursor(history[n], cursor, hack)
    THEN IF hack THEN history[Len(history)].timestamp + 1
         ELSE history[Len(history)].transactionID
    ELSE cursor

\* a step of GetLevels in which the fetch succeeds
FetchedStep == GetLevelsStep /\ glCall'.fetches > 0 /\ ~glCall'.err

\* C16: the first call of GetLevels of a provider that gets to fetch stores
\* the cursor the poll observed, clears the first-run flag and leaves
\* lastTradePrice as it was, whatever trades the poll returned and whatever
\* price2LastPrice holds.
C16_FirstRunAdoptsCursorOnly ==
    [][(FetchedStep /\ glCall'.firstRun)
       => LET s == glCall'.side
          IN /\ provider'[s].lastTradeCursor =
                    ObservedCursor(tradeHistory, provider[s].lastTradeCursor,
                                   IsCcxtTradeHistoryHack)
             /\ provider'[s].lastTradePrice = provider[s].lastTradePrice
             /\ ~provider'[s].isFirstTradeHistoryRun]_vars

\* a first run that polled a trade at another price than lastTradePrice, with
\* entries of the other side in the map
C16_Witness ==
    /\ glCall.called /\ glCall.firstRun /\ ~glCall.err /\ glCall.fetches > 1
    /\ glCall.newTrade
    /\ glCall.lastPrice # provider[glCall.side].lastTradePrice
    /\ provider[glCall.side].lastTradeCursor # InitialLastTradeCursor
    /\ provider[glCall.side].lastTradePrice = InitialLastTradePrice
    /\ Cardinality(DOMAIN price2LastPrice) > Len(glCall.levels)

\* C17: a call of GetLevels after the first run whose poll observes no new
\* trade leaves lastTradeCursor and lastTradePrice as they were, and returns
\* the ladder that the call before it returned to the same side for the same
\* balance.
C17_NoNewTradeFrame ==
    [][(FetchedStep /\ ~glCall'.firstRun /\ ~glCall'.newTrade)
       => LET s == glCall'.side
          IN /\ provider'[s].lastTradeCursor = provider[s].lastTradeCursor
             /\ provider'[s].lastTradePrice = provider[s].lastTradePrice
             /\ (/\ glCall.called /\ glCall.side = s /\ ~glCall.err
                 /\ glCall.maxAssetBase = glCall'.maxAssetBase)
                    => glCall'.levels = glCall.levels]_vars

\* such a call by a provider whose lastTradePrice has come from the map, with
\* a ladder
C17_Witness ==
    /\ glCall.called /\ ~glCall.firstRun /\ ~glCall.err /\ glCall.fetches > 0
    /\ ~glCall.newTrade
    /\ tradeHistory # <<>>
    /\ provider[glCall.side].lastTradeCursor # InitialLastTradeCursor
    /\ provider[glCall.side].lastTradePrice # InitialLastTradePrice
    /\ glCall.levels # <<>>

(* ---- getLastPriceFromMap ---- *)

\* the keys of the map on the side of the trade price that the direction of
\* the trade asks for: above it for a buy, below it for a sell
ConsistentKeys ==
    {k \in DOMAIN price2LastPrice :
        IF scan.lastTradeIsBuy THEN Less(scan.tradePrice, k) ELSE Less(k, scan.tradePrice)}

\* the consistent key nearest to the trade price
NearestKey ==
    CHOOSE k \in ConsistentKeys :
        \A o \in ConsistentKeys :
            IF scan.lastTradeIsBuy THEN LessEq(k, o) ELSE LessEq(o, k)

\* a call that has returned from a map with no entry at the trade price
ReturnedWithoutExactEntry ==
    scan.at = "returned" /\ scan.tradePrice \notin DOMAIN price2LastPrice

\* C18: with no entry at the trade price and at least one key consistent with
\* the direction of the trade, getLastPriceFromMap returns the value of the
\* nearest consistent key: the smallest key above the trade price for a buy,
\* the largest key below it for a sell, whatever else is in the map.
C18_ReturnsNearestConsistentEntry ==
    (ReturnedWithoutExactEntry /\ ConsistentKeys # {})
        => scan.lastPrice = price2LastPrice[NearestKey]

\* C19: with no entry at the trade price and no key consistent with the
\* direction of the trade, getLastPriceFromMap returns -1, also from a map
\* that has entries.
C19_ReturnsSentinelWithoutConsistentEntry ==
    (ReturnedWithoutExactEntry /\ ConsistentKeys = {})
        => scan.lastPrice = MinusOne

(* ---- fetchLatestTradePrice ---- *)

\* C20: on an exchange that holds finitely many trades and serves them oldest
\* first from the given cursor, a poll that has started ends; it makes at most
\* one call of GetTradeHistory per trade and one more; and a poll that ends
\* without an error ends on an empty page, returning the cursor and the price
\* it had reached. With the inclusive timestamp cursor and with the
\* transaction ID as cursor.
C20_PollingTerminates ==
    /\ poll.active ~> ~poll.active
    /\ [](poll.pages <= Len(tradeHistory) + 1)
    /\ [][(poll.active /\ ~poll'.active /\ ~poll'.err)
          => /\ GetTradeHistory(tradeHistory, poll.lastCursor, IsCcxtTradeHistoryHack) = <<>>
             /\ poll'.lastCursor = poll.lastCursor
             /\ poll'.lastPrice = poll.lastPrice]_vars

\* a poll that has ended without an error after a page per trade and the
\* empty page, under the inclusive cursor
C20_Witness ==
    /\ IsCcxtTradeHistoryHack
    /\ ~poll.active /\ ~poll.err
    /\ Len(tradeHistory) = MaxPolledTrades
    /\ poll.pages = Len(tradeHistory) + 1
    /\ poll.lastCursor = tradeHistory[Len(tradeHistory)].timestamp + 1

\* the number of trades the poll has been served after its non-empty pages
TradesServed ==
    LET nonEmpty == IF poll.active THEN poll.pages ELSE poll.pages - 1
    IN Min(nonEmpty * PageSize, Len(tradeHistory))

IsNumeric(str) ==
    LET digits == IF str # <<>> /\ str[1] \in {"-", "+"} THEN Tail(str) ELSE str
    IN digits # <<>> /\ \A i \in 1 .. Len(digits) : IsDigit(digits[i])

\* the number a numeric string stands for, digit by digit from the right
RECURSIVE DigitsValue(_)
DigitsValue(digits) ==
    IF digits = <<>> THEN 0
    ELSE 10 * DigitsValue(SubSeq(digits, 1, Len(digits) - 1)) + DigitValue(digits[Len(digits)])
NumericValue(str) ==
    IF str[1] = "-" THEN 0 - DigitsValue(Tail(str))
    ELSE IF str[1] = "+" THEN DigitsValue(Tail(str))
    ELSE DigitsValue(str)

\* a numeric string as a number is printed: no plus sign, no leading zero, no
\* minus zero
IsCanonical(str) ==
    /\ IsNumeric(str)
    /\ str[1] # "+"
    /\ LET digits == IF str[1] = "-" THEN Tail(str) ELSE str
       IN /\ Len(digits) > 1 => digits[1] # "0"
          /\ str[1] = "-" => digits # <<"0">>

\* C22: after a non-empty page the new cursor depends on the adapter flag
\* only. With the inclusive-cursor flag it is the number the last trade's
\* timestamp stands for plus one, printed in decimal, and a timestamp that
\* does not convert to an integer is an error; without the flag it is the
\* last trade's transaction ID, unmodified, and there is no error.
C22_CursorAdvancement ==
    cursorCall.done =>
        IF IsCcxtTradeHistoryHack
        THEN IF IsNumeric(cursorCall.timestamp)
             THEN /\ ~cursorCall.err
                  /\ IsCanonical(cursorCall.lastCursor)
                  /\ NumericValue(cursorCall.lastCursor) =
                         NumericValue(cursorCall.timestamp) + 1
             ELSE cursorCall.err
        ELSE ~cursorCall.err /\ cursorCall.lastCursor = cursorCall.transactionID

\* a timestamp whose increment carries into another digit
C22_Witness ==
    /\ cursorCall.done
    /\ IsCcxtTradeHistoryHack
    /\ cursorCall.timestamp = <<"0", "9">>
    /\ cursorCall.lastCursor = <<"1", "0">>

(* ---- the level creation loop ---- *)

\* the i-th level of the ladder that starts at start meets a stop condition
MeetsStop(c, start, maxAssetBase, i) ==
    ExposureStop(c, start, maxAssetBase, i) \/ PriceLimitStop(c, start, i)

\* the levels are the first levels of the unrestricted ladder, none meets a
\* stop condition, and there are no more of them than maxLevels
StopFreePrefix(c, start, maxAssetBase, levels) ==
    /\ Len(levels) <= c.maxLevels
    /\ \A i \in 1 .. Len(levels) :
          /\ levels[i] = [price |-> NumberFromFloat(LadderPrice(c, start, i)),
                          amount |-> NumberFromFloat(c.amountBase)]
          /\ Less(c.minBase, Sub(maxAssetBase, LadderBaseUsage(c, start, i)))
          /\ IF c.useMaxQuoteInTargetAmountCalc
             THEN LessEq(c.priceLimit, Div(One, LadderPrice(c, start, i)))
             ELSE LessEq(LadderPrice(c, start, i), c.priceLimit)

SwingPriceAfter(c, start, n) == Mul(start, Power(OnePlusHalf(c.spread), n))
SwingPriceBefore(c, start, n) == Mul(start, Power(OnePlusHalf(c.spread), n - 1))

\* a side completes the assignment to the map entry of its latest level
WritesEntry(side) == Writing(side) /\ run'[side].at = "loop"

\* C24 as the specification states it: the entry upserted for an emitted
\* level maps the price the level is emitted with to the swing price as it was
\* before the iteration multiplied it by (1 + spread/2).
C24_MapsToPreCompoundingPrice ==
    [][\A side \in Sides :
          WritesEntry(side)
             => LET c == config[side]
                    n == Len(run[side].levels)
                    price == run[side].levels[n].price
                IN /\ price \in DOMAIN price2LastPrice'
                   /\ price2LastPrice'[price] =
                          SwingPriceBefore(c, StartPrice(c, provider[side]), n)]_vars

\* C24: the entry upserted for the n-th emitted level maps the level's price
\* to the swing price after the n-th compounding by (1 + spread/2), both in
\* actual quote price: on the sell side the key is the price the level is
\* emitted with and the value the compounded swing price; on the buy side,
\* whose loop runs on inverted prices, the key is the inverse of the loop's
\* level price rounded to the price precision and the value the inverse of the
\* compounded swing price. No other entry of the map changes.
C24_MapsToCompoundedPrice ==
    [][\A side \in Sides :
          WritesEntry(side)
             => LET c == config[side]
                    n == Len(run[side].levels)
                    start == StartPrice(c, provider[side])
                    key == IF c.useMaxQuoteInTargetAmountCalc
                           THEN NumberFromFloat(Div(One, LadderPrice(c, start, n)))
                           ELSE run[side].levels[n].price
                    value == IF c.useMaxQuoteInTargetAmountCalc
                             THEN Div(One, SwingPriceAfter(c, start, n))
                             ELSE SwingPriceAfter(c, start, n)
                IN /\ DOMAIN price2LastPrice' = DOMAIN price2LastPrice \cup {key}
                   /\ price2LastPrice'[key] = value
                   /\ \A k \in DOMAIN price2LastPrice \ {key} :
                         price2LastPrice'[k] = price2LastPrice[k]]_vars

\* the buy side has written the entry of its second level, at a key that is
\* not the price the level was emitted with
C24_Witness ==
    LET c == config["buy"]
        start == StartPrice(c, provider["buy"])
        levels == run["buy"].levels
        key == NumberFromFloat(Div(One, LadderPrice(c, start, 2)))
    IN /\ run["buy"].at = "loop"
       /\ Len(levels) = 2 /\ run["buy"].i = 2
       /\ key # levels[2].price
       /\ key \in DOMAIN price2LastPrice
       /\ price2LastPrice[key] = Div(One, SwingPriceAfter(c, start, 2))

(* ---- the sign of the prices ---- *)

\* C25: from a strictly positive lastTradePrice, with strictly positive
\* spreads and only strictly positive trade prices in the history, after any
\* sequence of GetLevels calls of the two providers lastTradePrice is strictly
\* positive, never the -1 of getLastPriceFromMap, and every emitted level has
\* a strictly positive price.
C25_PricesStayPositive ==
    /\ \A side \in Sides : Less(Zero, provider[side].lastTradePrice)
    /\ \A i \in 1 .. Len(glCall.levels) : Less(Zero, glCall.levels[i].price)

(* ---- the lookup and the order of the range ---- *)

\* C26: a lookup that has returned has returned the one price that every
\* order of the range over the map returns for the same map, the same trade
\* price and the same direction, so that two runs on the same inputs set the
\* same lastTradePrice.
C26_LookupIndependentOfOrder ==
    scan.at = "returned"
        => GetLastPriceFromMap(price2LastPrice, scan.tradePrice, scan.lastTradeIsBuy)
               = {scan.lastPrice}

====
